---- MODULE Spec2Model ----
(***************************************************************************)
(* rig_ripper.py: strip a rig down to the joints that deform the selected  *)
(* mesh faces.  The host scene (meshes, their parent transforms, the joint *)
(* forest, the skin clusters and their weights) is the state; rip_rig is a *)
(* linear pipeline of host queries and deletions.                          *)
(*                                                                         *)
(* Host calls are modelled by their documented effect:                     *)
(*  - ls(type=...) lists the live nodes of a type in scene order (by id);   *)
(*  - delete removes a node together with everything parented under it;     *)
(*  - invertSelection on selected faces selects the other faces of the same *)
(*    meshes (component selection, the use the docstring and the warning    *)
(*    "please select only faces" describe); with nothing selected it        *)
(*    selects every object of the scene;                                    *)
(*  - select(list, deselect=True) deselects every node named in the list;   *)
(*  - the name mel is not bound by the module itself (it imports pymel.all  *)
(*    as pymel and maya.cmds as cmds), so whether line 97 raises NameError  *)
(*    depends on the host session's namespace: both outcomes are modelled. *)
(***************************************************************************)
EXTENDS Integers, Sequences, FiniteSets

VARIABLES
    selection,           \* line 9: the host selection captured by the script
    parent,              \* host: joint -> parent joint, 0 for a root
    shellOf,             \* host: mesh -> its parent transform
    skinCluster,         \* host: meshes with a skinCluster in their history
    posWeight,           \* host: mesh -> joints with weight > 0 on it
    meshes,              \* host: live mesh nodes
    transforms,          \* host: live mesh transforms (shells)
    joints,              \* host: live joints
    trimmed,             \* host: meshes whose unselected faces were deleted
    pc,                  \* position of the run inside rip_rig
    valid,               \* rip_rig local (line 145)
    geometry,            \* rip_rig local (line 145)
    influential_joints,  \* get_joint_hierarchy local (line 47)
    joint_hierarchy,     \* rip_rig local (line 148)
    warned,              \* pymel.warning was emitted by this run
    err,                 \* the uncaught exception that ended the run
    completed            \* runs of rip_rig that ran to completion: 0, 1, or 2 for more

vars == <<selection, parent, shellOf, skinCluster, posWeight, meshes, transforms,
          joints, trimmed, pc, valid, geometry, influential_joints,
          joint_hierarchy, warned, err, completed>>

NJ == 3
NM == 2
MaxSel == 2

Joints == 1..NJ
Meshes == 1..NM
Transforms == 1..NM

MeshItem(m) == [type |-> "mesh", id |-> m]
TransformItem(t) == [type |-> "transform", id |-> t]
Items == {MeshItem(m) : m \in Meshes} \cup {TransformItem(1)}

\* The selections tried: every list of at most MaxSel items in which the
\* meshes are numbered in the order they first appear (a renaming of meshes)
FirstUse(s, i) == \A k \in 1..(i - 1) : s[k] # s[i]
Selections ==
    {s \in UNION {[1..n -> Items] : n \in 0..MaxSel} :
        \A i \in 1..Len(s) :
            (s[i].type = "mesh" /\ FirstUse(s, i)) =>
                \A m \in 1..(s[i].id - 1) : \E k \in 1..(i - 1) : s[k] = MeshItem(m)}

Range(s) == {s[i] : i \in 1..Len(s)}

\* pymel.objectType(i)
ObjectType(i) == i.type

\* pymel.ls(type=...): the live nodes of a type, in scene order
RECURSIVE Listing(_)
Listing(S) ==
    IF S = {} THEN <<>>
    ELSE LET x == CHOOSE y \in S : \A z \in S : y <= z
         IN <<x>> \o Listing(S \ {x})

\* Python's "x in list"
In(x, s) == \E i \in 1..Len(s) : s[i] = x

(***************************************************************************)
(* validate_selection (lines 11-28)                                        *)
(***************************************************************************)
RECURSIVE ValidateFrom(_, _, _)
ValidateFrom(sel, i, geo) ==
    IF i > Len(sel) THEN [valid |-> TRUE, geometry |-> geo]
    ELSE IF ObjectType(sel[i]) # "mesh" THEN [valid |-> FALSE, geometry |-> geo]
    ELSE ValidateFrom(sel, i + 1, Append(geo, sel[i]))

\* variant: the flag returned is True also when the loop stopped early
validate_selection_always_true(sel) ==
    [valid |-> TRUE, geometry |-> ValidateFrom(sel, 1, <<>>).geometry]

validate_selection(sel) == ValidateFrom(sel, 1, <<>>)

\* variant: "valid or geometry" in place of the test of line 147
RipRigProceedsOnPrefix(v, sel, geo) == v \/ Len(geo) > 0

\* variant: an empty geometry list is declined
RipRigProceedsNonEmpty(v, sel, geo) == v /\ Len(sel) = Len(geo) /\ Len(geo) > 0

\* line 147: the condition under which rip_rig goes on
RipRigProceeds(v, sel, geo) == v /\ Len(sel) = Len(geo)

(***************************************************************************)
(* get_joint_hierarchy (lines 30-77), root_request = False                 *)
(***************************************************************************)
\* variant: a mesh without a skin cluster is passed over silently
HasSkinClusterUnchecked(vert) == TRUE

\* line 51: pymel.ls(pymel.listHistory(vert), type='skinCluster') is not empty
HasSkinCluster(vert) == vert.id \in meshes /\ vert.id \in skinCluster

\* line 52: pymel.skinCluster(sc, query=True, inf=True); a skin cluster is
\* bound to the skeleton, and a deleted joint is no influence any more
ClusterInfluences(vert) == joints

\* line 57: pymel.skinPercent(sc, vert, transform=j, query=True)
SkinPercent(vert, j) == IF j \in posWeight[vert.id] THEN 1 ELSE 0

\* variant: ">=" in place of ">" in line 59
QualifiesFromZero(weight, j, infl) == weight >= 0 /\ ~In(j, infl)

\* line 59: the test that makes a joint influential
Qualifies(weight, j, infl) == weight > 0 /\ ~In(j, infl)

\* lines 54-60: the inner loop over all_joints for one item of geometry
RECURSIVE ScanJoints(_, _, _, _)
ScanJoints(infl, vert, all_joints, k) ==
    IF k > Len(all_joints) THEN infl
    ELSE LET j == all_joints[k]
         IN IF j \in ClusterInfluences(vert)
                /\ Qualifies(SkinPercent(vert, j), j, infl)
            THEN ScanJoints(Append(infl, j), vert, all_joints, k + 1)
            ELSE ScanJoints(infl, vert, all_joints, k + 1)

\* lines 47-60: the outer loop over geometry
RECURSIVE ScanGeometry(_, _, _, _)
ScanGeometry(infl, geo, all_joints, i) ==
    IF i > Len(geo) THEN infl
    ELSE ScanGeometry(ScanJoints(infl, geo[i], all_joints, 1), geo, all_joints, i + 1)

\* variant: only the skin cluster found last (lines 41-42) is scanned
InfluentialJointsLastMesh(geo) ==
    ScanGeometry(<<>>, IF geo = <<>> THEN <<>> ELSE <<geo[Len(geo)]>>,
                 Listing(joints), 1)

InfluentialJoints(geo) == ScanGeometry(<<>>, geo, Listing(joints), 1)

\* An entry of joint_hierarchy.  Line 67 appends the joint j itself (a node);
\* line 72 appends joint_parent, which is what listRelatives returned: a
\* one-element list.  A node and a list never compare equal in Python.
NodeEntry(j) == [node |-> j, wrapped |-> FALSE]
ListEntry(j) == [node |-> j, wrapped |-> TRUE]

\* lines 68, 74: pymel.listRelatives(x, parent=True); 0 stands for []
ListRelativesParent(j) == parent[j]

\* lines 70-74: the while loop; it runs until a joint has no parent
RECURSIVE WalkParents(_, _)
WalkParents(jh, joint_parent) ==
    IF joint_parent = 0 THEN jh
    ELSE WalkParents(IF ~In(ListEntry(joint_parent), jh)
                     THEN Append(jh, ListEntry(joint_parent))
                     ELSE jh,
                     ListRelativesParent(joint_parent))

\* lines 63-74: the loop over influential_joints
RECURSIVE BuildHierarchy(_, _, _)
BuildHierarchy(jh, infl, i) ==
    IF i > Len(infl) THEN jh
    ELSE BuildHierarchy(WalkParents(Append(jh, NodeEntry(infl[i])),
                                    ListRelativesParent(infl[i])),
                        infl, i + 1)

JointHierarchy(infl) == BuildHierarchy(<<>>, infl, 1)

\* the joints a hierarchy list names
JointsOf(jh) == {jh[i].node : i \in 1..Len(jh)}

(***************************************************************************)
(* isolate_geometry (lines 90-122)                                         *)
(***************************************************************************)
\* lines 104-111: the parents of all meshes of the scene, without repeats
RECURSIVE MeshTransforms(_, _, _)
MeshTransforms(acc, all_mesh, i) ==
    IF i > Len(all_mesh) THEN acc
    ELSE MeshTransforms(IF ~In(shellOf[all_mesh[i]], acc)
                        THEN Append(acc, shellOf[all_mesh[i]]) ELSE acc,
                        all_mesh, i + 1)

\* lines 113-119: the parents of the meshes of geometry, without repeats
RECURSIVE SelectionShells(_, _, _)
SelectionShells(acc, geo, i) ==
    IF i > Len(geo) THEN acc
    ELSE SelectionShells(IF ~In(shellOf[geo[i].id], acc)
                         THEN Append(acc, shellOf[geo[i].id]) ELSE acc,
                         geo, i + 1)

\* variant: only the first item of geometry counts as selected
ShellsForDeleteFirstOnly(geo) ==
    LET all_mesh_transforms == MeshTransforms(<<>>, Listing(meshes), 1)
        selection_shells ==
            SelectionShells(<<>>, IF geo = <<>> THEN <<>> ELSE <<geo[1]>>, 1)
    IN {all_mesh_transforms[i] : i \in
          {k \in 1..Len(all_mesh_transforms) :
              ~In(all_mesh_transforms[k], selection_shells)}}

\* line 121
ShellsForDelete(geo) ==
    LET all_mesh_transforms == MeshTransforms(<<>>, Listing(meshes), 1)
        selection_shells == SelectionShells(<<>>, geo, 1)
    IN {all_mesh_transforms[i] : i \in
          {k \in 1..Len(all_mesh_transforms) :
              ~In(all_mesh_transforms[k], selection_shells)}}

(***************************************************************************)
(* isolate_joint_hierarchy (lines 124-135)                                 *)
(***************************************************************************)
RECURSIVE AncestorsOf(_)
AncestorsOf(j) ==
    IF parent[j] = 0 THEN {} ELSE {parent[j]} \cup AncestorsOf(parent[j])

\* host delete: the joints of S go, and every joint below one of them
AfterDelete(S) == {j \in joints : j \notin S /\ AncestorsOf(j) \cap S = {}}

\* variant: the nested one-element lists of joint_hierarchy are not deselected
SelectedForDeleteNodesOnly(jh) ==
    joints \ {jh[i].node : i \in {k \in 1..Len(jh) : ~jh[k].wrapped}}

\* variant: only the first of the selected joints is deleted
SelectedForDeleteFirst(jh) ==
    LET S == joints \ JointsOf(jh)
    IN IF S = {} THEN {} ELSE {CHOOSE x \in S : \A y \in S : x <= y}

\* lines 132-134: all joints selected, those of joint_hierarchy deselected
SelectedForDelete(jh) == joints \ JointsOf(jh)

(***************************************************************************)
(* The scenes and selections the runs start from                           *)
(***************************************************************************)
\* joint forests: a joint is a root, a child of joint 1 or a child of the
\* joint listed before it (chains, stars and their mixes); the scene lists a
\* joint after its parent
Forests == {p \in [Joints -> 0..NJ] : \A j \in Joints : p[j] < j /\ p[j] \in {0, 1, j - 1}}

\* every mesh sits under its own transform or shares the one of mesh 1
Shells == {s \in [Meshes -> Transforms] : \A m \in Meshes : s[m] \in {1, m}}

\* the meshes whose skin data a run on sel can read
Queried(sel) ==
    IF validate_selection(sel).valid THEN {i.id : i \in Range(sel)} ELSE {}

\* A mesh is unbound or bound; mesh 1 carries any weighting, a further mesh
\* has weight on one joint at most
Unbound == [bound |-> FALSE, pos |-> {}]
Weightings(m) ==
    IF m = 1 THEN SUBSET Joints ELSE {{}} \cup {{j} : j \in Joints}
SkinSettings(m) == {Unbound} \cup {[bound |-> TRUE, pos |-> P] : P \in Weightings(m)}

\* skin data per mesh; a mesh no run reads is left unbound
Skins(sel) ==
    {[m \in Meshes |-> IF m \in Queried(sel) THEN g[m] ELSE Unbound] :
        g \in {h \in [Queried(sel) -> UNION {SkinSettings(m) : m \in Meshes}] :
                 \A m \in Queried(sel) : h[m] \in SkinSettings(m)}}

Init ==
    /\ selection \in Selections
    /\ parent \in Forests
    /\ shellOf \in Shells
    /\ \E sk \in Skins(selection) :
          /\ skinCluster = {m \in Meshes : sk[m].bound}
          /\ posWeight = [m \in Meshes |-> sk[m].pos]
    /\ meshes = Meshes
    /\ transforms = {shellOf[m] : m \in Meshes}
    /\ joints = Joints
    /\ trimmed = {}
    /\ pc = "validate"
    /\ valid = FALSE
    /\ geometry = <<>>
    /\ influential_joints = <<>>
    /\ joint_hierarchy = <<>>
    /\ warned = FALSE
    /\ err = "none"
    /\ completed = 0

host == <<parent, shellOf, skinCluster, posWeight>>
scene == <<meshes, transforms, joints, trimmed>>

(***************************************************************************)
(* rip_rig (lines 138-150), one action per stage                           *)
(***************************************************************************)
\* lines 145-147: validate_selection, its warning, and the test of line 147
ValidateSelection ==
    /\ pc = "validate"
    /\ LET r == validate_selection(selection)
       IN /\ valid' = r.valid
          /\ geometry' = r.geometry
          /\ warned' = ~r.valid
          /\ pc' = IF RipRigProceeds(r.valid, selection, r.geometry)
                   THEN "get_joint_hierarchy" ELSE "declined"
    /\ UNCHANGED <<selection, host, scene, influential_joints, joint_hierarchy,
                   err, completed>>

\* line 148, when line 51 indexes an empty list: IndexError ends the run
GetJointHierarchyNoSkin ==
    /\ pc = "get_joint_hierarchy"
    /\ \E i \in 1..Len(geometry) : ~HasSkinCluster(geometry[i])
    /\ pc' = "error"
    /\ err' = "IndexError"
    /\ UNCHANGED <<selection, host, scene, valid, geometry, influential_joints,
                   joint_hierarchy, warned, completed>>

\* line 148: get_joint_hierarchy(geometry) returns
GetJointHierarchy ==
    /\ pc = "get_joint_hierarchy"
    /\ \A i \in 1..Len(geometry) : HasSkinCluster(geometry[i])
    /\ influential_joints' = InfluentialJoints(geometry)
    /\ joint_hierarchy' = JointHierarchy(InfluentialJoints(geometry))
    /\ pc' = "isolate_geometry"
    /\ UNCHANGED <<selection, host, scene, valid, geometry, warned, err, completed>>

\* line 97 when the session binds no name mel: NameError ends the run
InvertSelectionNameError ==
    /\ pc = "isolate_geometry"
    /\ pc' = "error"
    /\ err' = "NameError"
    /\ UNCHANGED <<selection, host, scene, valid, geometry, influential_joints,
                   joint_hierarchy, warned, completed>>

\* lines 97-98: invertSelection, then delete of what is now selected
InvertSelectionDelete ==
    /\ pc = "isolate_geometry"
    /\ IF geometry = <<>>
       THEN /\ meshes' = {}
            /\ transforms' = {}
            /\ joints' = {}
            /\ trimmed' = trimmed
       ELSE /\ trimmed' = trimmed \cup {geometry[i].id : i \in 1..Len(geometry)}
            /\ UNCHANGED <<meshes, transforms, joints>>
    /\ pc' = "delete_shells"
    /\ UNCHANGED <<selection, host, valid, geometry, influential_joints,
                   joint_hierarchy, warned, err, completed>>

\* lines 101-122: the shells no mesh of geometry sits under are deleted
DeleteShells ==
    /\ pc = "delete_shells"
    /\ LET shells_for_delete == ShellsForDelete(geometry)
       IN /\ transforms' = transforms \ shells_for_delete
          /\ meshes' = {m \in meshes : shellOf[m] \notin shells_for_delete}
    /\ pc' = "isolate_joint_hierarchy"
    /\ UNCHANGED <<selection, host, joints, trimmed, valid, geometry,
                   influential_joints, joint_hierarchy, warned, err, completed>>

\* line 150: isolate_joint_hierarchy(joint_hierarchy); rip_rig returns
IsolateJointHierarchy ==
    /\ pc = "isolate_joint_hierarchy"
    /\ joints' = AfterDelete(SelectedForDelete(joint_hierarchy))
    /\ pc' = "done"
    /\ completed' = IF completed = 0 THEN 1 ELSE 2
    /\ UNCHANGED <<selection, host, meshes, transforms, trimmed, valid, geometry,
                   influential_joints, joint_hierarchy, warned, err>>

\* the script is run again on the scene it left, with the same selection
RunAgain ==
    /\ pc \in {"done", "declined", "error"}
    /\ pc' = "validate"
    /\ valid' = FALSE
    /\ geometry' = <<>>
    /\ influential_joints' = <<>>
    /\ joint_hierarchy' = <<>>
    /\ warned' = FALSE
    /\ err' = "none"
    /\ UNCHANGED <<selection, host, scene, completed>>

Next ==
    \/ ValidateSelection
    \/ GetJointHierarchyNoSkin
    \/ GetJointHierarchy
    \/ InvertSelectionNameError
    \/ InvertSelectionDelete
    \/ DeleteShells
    \/ IsolateJointHierarchy
    \/ RunAgain

Spec == Init /\ [][Next]_vars

(***************************************************************************)
(* Properties                                                              *)
(***************************************************************************)
AllMesh(sel) == \A i \in 1..Len(sel) : ObjectType(sel[i]) = "mesh"
MeshesOf(geo) == {geo[i].id : i \in 1..Len(geo)}
nodes == <<meshes, transforms, joints>>

\* the state in which get_joint_hierarchy has just returned
HierarchyReturned == pc = "isolate_geometry"

\* live joints with strictly positive weight on some mesh of geometry
Weighted == {j \in joints : \E m \in MeshesOf(geometry) : j \in posWeight[m]}

\* C1: for an all-mesh selection of skinned meshes the joints named by the
\* list get_joint_hierarchy returns are exactly the joints with positive
\* weight on a selected mesh together with all their ancestors.
C1_AncestorClosure ==
    HierarchyReturned =>
        JointsOf(joint_hierarchy) =
            Weighted \cup UNION {AncestorsOf(j) : j \in Weighted}

\* two meshes that share no joint, each with a weighted joint and an ancestor
C1_Witness ==
    /\ HierarchyReturned
    /\ Len(geometry) = 2
    /\ geometry[1] # geometry[2]
    /\ \E a \in posWeight[geometry[1].id], b \in posWeight[geometry[2].id] :
          /\ ({a} \cup AncestorsOf(a)) \cap ({b} \cup AncestorsOf(b)) = {}
          /\ AncestorsOf(a) # {}
          /\ ({a} \cup AncestorsOf(a)) \subseteq JointsOf(joint_hierarchy)

\* C2: a selection with a non-mesh item makes the run warn and stop after
\* validation, and no step of such a run changes the scene.
C2_InvalidSelectionNoMutation ==
    /\ []((~AllMesh(selection) /\ pc # "validate") => (pc = "declined" /\ warned))
    /\ [][~AllMesh(selection) => scene' = scene]_vars

\* a non-mesh item behind a mesh, the run over
C2_Witness ==
    /\ Len(selection) = 2
    /\ ObjectType(selection[1]) = "mesh"
    /\ ObjectType(selection[2]) # "mesh"
    /\ pc = "declined"
    /\ warned

C4_ValidateResult ==
    pc # "validate" =>
        /\ valid => (AllMesh(geometry) /\ geometry = selection)
        /\ ~valid =>
              \E k \in 1..Len(selection) :
                  /\ ObjectType(selection[k]) # "mesh"
                  /\ \A i \in 1..(k - 1) : ObjectType(selection[i]) = "mesh"
                  /\ geometry = SubSeq(selection, 1, k - 1)

\* a valid selection that holds the same mesh twice
C4_Witness ==
    /\ pc # "validate"
    /\ valid
    /\ Len(geometry) = 2
    /\ geometry[1] = geometry[2]

C8_NoJointTwice ==
    HierarchyReturned =>
        \A i, k \in 1..Len(joint_hierarchy) :
            i # k => joint_hierarchy[i].node # joint_hierarchy[k].node

\* the first item of geometry that weights joint j
FirstMesh(j) ==
    CHOOSE i \in 1..Len(geometry) :
        /\ j \in posWeight[geometry[i].id]
        /\ \A k \in 1..(i - 1) : j \notin posWeight[geometry[k].id]

\* C9: influential_joints holds exactly the live joints with positive weight
\* on a mesh of geometry, each once, ordered by the first mesh of geometry
\* that weights the joint and, within a mesh, by the scene's joint order.
C9_InfluentialJoints ==
    HierarchyReturned =>
        /\ \A j \in Joints : In(j, influential_joints) <=> j \in Weighted
        /\ \A a, b \in 1..Len(influential_joints) :
              a < b =>
                  /\ influential_joints[a] # influential_joints[b]
                  /\ \/ FirstMesh(influential_joints[a]) < FirstMesh(influential_joints[b])
                     \/ /\ FirstMesh(influential_joints[a]) = FirstMesh(influential_joints[b])
                        /\ influential_joints[a] < influential_joints[b]

\* two meshes, the later one weights an earlier-listed joint; one joint of
\* the scene has no weight
C9_Witness ==
    /\ HierarchyReturned
    /\ Len(influential_joints) = 2
    /\ influential_joints[1] > influential_joints[2]
    /\ influential_joints[2] \in posWeight[geometry[2].id]
    /\ influential_joints[2] \notin posWeight[geometry[1].id]
    /\ Weighted # joints

\* the positions of rip_rig at which a deletion is due
DeletionStages == {"isolate_geometry", "delete_shells", "isolate_joint_hierarchy"}

\* C10: the scene changes only in the deletion stages, which run in the order
\* get_joint_hierarchy, isolate_geometry, isolate_joint_hierarchy with the
\* hierarchy computed before them; a selected mesh without a skin cluster
\* ends the run in get_joint_hierarchy with the scene unchanged.  (Joints go
\* in the geometry stage only when nothing is selected: the inverted
\* selection then holds every object of the scene.)
C10_StageOrder ==
    [][/\ scene' # scene => pc \in DeletionStages
       /\ joints' # joints => (pc = "isolate_joint_hierarchy" \/ geometry = <<>>)
       /\ pc' = "isolate_geometry" => pc = "get_joint_hierarchy"
       /\ pc' = "delete_shells" => pc = "isolate_geometry"
       /\ pc' = "isolate_joint_hierarchy" => pc = "delete_shells"
       /\ pc \in DeletionStages => UNCHANGED joint_hierarchy
       /\ (pc = "get_joint_hierarchy"
             /\ \E i \in 1..Len(geometry) : geometry[i].id \notin skinCluster)
          => (pc' = "error" /\ err' = "IndexError" /\ scene' = scene)]_vars

\* the second of two selected meshes has no skin cluster; the run is over
C10_Witness ==
    /\ pc = "error"
    /\ err = "IndexError"
    /\ Len(geometry) = 2
    /\ geometry[1].id \in skinCluster
    /\ geometry[2].id \notin skinCluster
    /\ scene = <<Meshes, {shellOf[m] : m \in Meshes}, Joints, {}>>

====
